---- MODULE Spec2Model ----
(***************************************************************************)
(* pyBlocker (src/main.py): a Qt controller (AppBlockerGUI) that starts a  *)
(* worker thread (BlockerThread) which, after an optional countdown to a   *)
(* scheduled start, sweeps the process table on every tick, terminates the *)
(* processes on a denylist and posts a stats update to the controller.     *)
(*                                                                         *)
(* Time is counted in whole seconds since the midnight before the run; it  *)
(* advances only where the worker sleeps or waits for a process to exit.   *)
(* Strings are modelled over a finite universe: a path is the sequence of  *)
(* its components ("/" first when absolute), a start time the sequence of  *)
(* its colon-separated numeric fields, the name field's text the sequence  *)
(* of its semicolon-separated segments.                                    *)
(***************************************************************************)
EXTENDS Integers, Sequences, FiniteSets, TLC

\* ---------------------------------------------------------------- bounds
\* Processes one enumeration of the process table yields at most.
MaxProcs == 2
\* Sessions started in one behaviour.
MaxRuns == 2

\* Seconds the clock can advance between two statements of run() that read it.
MaxPreempt == 2

\* ------------------------------------------------------ program constants
\* proc.wait(timeout=3)
WaitTimeout == 3
\* timedelta(minutes=...)
SecondsPerMinute == 60
SecondsPerHour == 60 * SecondsPerMinute
\* timedelta(days=1)
SecondsPerDay == 24 * SecondsPerHour
\* time.sleep(1) of the countdown loop
CountdownSleepSeconds == 1

\* ------------------------------------------------------- input universes
\* os.getcwd() of the process, as abspath sees it.
Cwd == <<"/", "home">>

CalcPath == <<"/", "bin", "calc">>

\* The process table: a process has a pid, a name and an executable path
\* (empty when psutil cannot determine it).
Processes ==
  { [pid |-> 1, name |-> "Calc.EXE",  exe |-> CalcPath],
    [pid |-> 2, name |-> "calc.exe",  exe |-> <<>>],
    [pid |-> 3, name |-> "calc.exe2", exe |-> <<"/", "bin", "calc", "x">>] }

\* What one psutil call sequence on a process can end in: success, or the
\* exception one of the calls raises.
PathOutcomes ==
  { "ok", "exe:AccessDenied", "name:NoSuchProcess", "terminate:NoSuchProcess",
    "terminate:AccessDenied", "wait:TimeoutExpired" }
NameOutcomes ==
  { "ok", "name:NoSuchProcess", "terminate:NoSuchProcess",
    "terminate:AccessDenied", "wait:TimeoutExpired", "log:NoSuchProcess",
    "notify:NoSuchProcess" }
\* Outcomes in which terminate() was called and returned.
Requested == { "ok", "wait:TimeoutExpired", "log:NoSuchProcess", "notify:NoSuchProcess" }
\* Outcomes in which the lines counting the termination were reached.
Counted == { "ok", "notify:NoSuchProcess" }

\* Seconds a successful proc.wait() takes (below the timeout).
ExitWaits == {0}
\* Seconds a sleep lasts beyond what was asked.
Oversleeps == {0, 1}

\* Values the widgets of the form can hold when Start is clicked.
NameTexts == { <<"">>, <<" Calc.EXE ", " ">> }
DialogPaths == { CalcPath }
Durations == {1}
Frequencies == {59}
\* QTimeEdit values, and the clock at the moment a run begins.
TimeEdits == { <<12, 0>> }
RunInstants == { 12 * SecondsPerHour - 2 }

\* start_time=None (or an empty string): nothing scheduled.
NoStartTime == <<>>
\* start_time arguments strptime rejects, which only a caller of BlockerThread
\* other than the form can pass.
StartTimes == { <<24, 0>>, <<12>> }

\* Well-formed start times, and the instants at which run() can find the
\* clock: around midnight, around noon and around each of the start times.
ScheduleTimes == { <<0, 0>>, <<0, 1>>, <<12, 0>>, <<23, 59>> }
ScheduleClocks ==
  { SecondsPerDay + t :
      t \in (-2..2) \cup (58..61) \cup ((12 * SecondsPerHour - 1)..(12 * SecondsPerHour + 1))
            \cup ((SecondsPerDay - 61)..(SecondsPerDay - 59)) }

\* ----------------------------------------------------------- conversions
\* str.strip() and str.lower() on the names of the universe.
Strip(s) ==
  CASE s = " Calc.EXE " -> "Calc.EXE"
    [] s = " " -> ""
    [] OTHER -> s

Lower(s) ==
  CASE s = "Calc.EXE" -> "calc.exe"
    [] OTHER -> s

RECURSIVE NormPath(_, _)
\* os.path.normpath: drop ".", let ".." remove the component before it.
NormPath(done, rest) ==
  IF rest = <<>> THEN done
  ELSE LET c == Head(rest) IN
       IF c = "." THEN NormPath(done, Tail(rest))
       ELSE IF c = ".."
            THEN NormPath(IF Len(done) > 1 THEN SubSeq(done, 1, Len(done) - 1)
                                           ELSE done, Tail(rest))
            ELSE NormPath(Append(done, c), Tail(rest))

\* os.path.abspath: join the working directory to a relative path, normalise.
AbsPath(p) ==
  IF p # <<>> /\ Head(p) = "/" THEN NormPath(<<"/">>, Tail(p))
  ELSE NormPath(<<>>, Cwd \o p)

Range(s) == { s[i] : i \in 1..Len(s) }

\* [os.path.abspath(path) for path in app_paths]
AbsPaths(paths) == [i \in 1..Len(paths) |-> AbsPath(paths[i])]

\* [pn.lower() for pn in process_names]
LowerAll(names) == [i \in 1..Len(names) |-> Lower(names[i])]

RECURSIVE SplitNames(_)
\* [name.strip() for name in text.split(';') if name.strip()]
SplitNames(segs) ==
  IF segs = <<>> THEN <<>>
  ELSE IF Strip(Head(segs)) # "" THEN <<Strip(Head(segs))>> \o SplitNames(Tail(segs))
       ELSE SplitNames(Tail(segs))

\* datetime.strptime(start_time, "%H:%M") succeeds.
WellFormed(st) ==
  /\ Len(st) = 2
  /\ st[1] \in 0..23
  /\ st[2] \in 0..59

\* The seconds of the day a well-formed start time names.
TimeOfDay(st) == st[1] * SecondsPerHour + st[2] * SecondsPerMinute

\* strptime(...).replace(year=, month=, day= of datetime.now()): the time st
\* on the date of the instant `clock`.
OnDate(st, clock) == (clock \div SecondsPerDay) * SecondsPerDay + TimeOfDay(st)

\* if start_datetime < now: start_datetime += timedelta(days=1)
StartInstant(start, clock) ==
  IF start < clock THEN start + SecondsPerDay ELSE start

\* A match by prefix instead of by membership.
MatchByPathPrefix(proc, paths) ==
  \E q \in Range(paths) :
     /\ Len(q) <= Len(AbsPath(proc.exe))
     /\ SubSeq(AbsPath(proc.exe), 1, Len(q)) = q

\* proc_path in self.app_paths
MatchByPath(proc, paths) == AbsPath(proc.exe) \in Range(paths)

\* proc.name().lower() in self.process_names
MatchByName(proc, names) == Lower(proc.name) \in Range(names)

\* __init__: [os.path.abspath(path) for path in app_paths], [pn.lower() ...]
NewThread(paths, names, duration, st, notify, frequency) ==
  [ app_paths |-> AbsPaths(paths),
    process_names |-> LowerAll(names),
    duration_minutes |-> duration,
    start_time |-> st,
    notify |-> notify,
    check_frequency |-> frequency ]

\* The thread object before any session: no denylist, nothing scheduled.
NoThread == NewThread(<<>>, <<>>, 1, NoStartTime, FALSE, 1)

\* What psutil.process_iter can yield in one sweep: each pid at most once.
Tables ==
  { t \in UNION { [1..n -> Processes] : n \in 0..MaxProcs } :
      \A i, j \in 1..Len(t) : i # j => t[i].pid # t[j].pid }

\* The widgets start_blocking disables and the handlers re-enable.
Widgets ==
  { "start_button", "stop_button", "add_app_button", "remove_app_button",
    "names_input", "duration_input", "start_time_checkbox", "start_time_input",
    "frequency_input", "notify_checkbox", "admin_checkbox" }

LogKinds == { "scheduled", "bad_format", "started", "finished", "stopped", "completed" }
NoteKinds == { "scheduled", "bad_format", "started", "finished", "stopped" }

\* A posted update_stats(time_remaining, blocked_apps, attempts) signal.
Update(t, b, a) == [sig |-> "update_stats", time |-> t, blocked |-> b, attempts |-> a]
\* The posted QThread.finished signal.
Finished == [sig |-> "finished", time |-> 0, blocked |-> 0, attempts |-> 0]

VARIABLES
  \* AppBlockerGUI
  blocker_thread,    \* "None" or "thread"
  app_paths_list,    \* items of the QListWidget
  checked,           \* start_time_checkbox and notify_checkbox: checked or not
  enabled,           \* widget -> setEnabled state
  time_label,        \* <<>> for "N/A", else <<mins, secs>>
  apps_label,        \* the number in "Blocked Applications: n"
  attempts_label,    \* the number in "Termination Attempts: n"
  guiPc,             \* "idle", "stop_wait" (inside thread.wait()), "exited"
  inputReady,        \* the posted events were sent since the last input event
  events,            \* signals posted to the controller's thread, oldest first
  \* BlockerThread
  thread,            \* the fields __init__ sets and run() only reads
  running,           \* self.running
  attempts,          \* self.attempts
  pc,                \* where run() is
  start_datetime,    \* the scheduled start instant (0 before it is computed)
  wait_seconds,
  end_time,
  blocked_apps,
  table,             \* the processes this sweep enumerates
  idx,               \* the one being examined
  phase,             \* "path" or "name": which check it is at
  now,               \* datetime.now()
  \* what the run did so far (observation only)
  log,               \* log entries per kind, this session
  notes,             \* notifications per kind, this session
  lastRequest,       \* this sweep: the process terminate() was last sent to
  lastUpdate,        \* the last update emitted, this session
  emitted,           \* how many were emitted
  sumBlocked,        \* the sum of their blocked_apps
  sweeps,            \* enumerations begun
  tick,              \* this sweep: where the first soft failure was, and what
                     \* the last check raised
  stopAt,            \* where run() was when stop was requested ("none": never)
  stopNow,           \* the clock at that moment
  sent,              \* the signals the thread posted, this session, in order
  received,          \* the signals the controller's slots were called with
  runs               \* sessions started

guiVars == <<blocker_thread, app_paths_list, checked, enabled, time_label,
             apps_label, attempts_label, guiPc, inputReady, received>>
threadVars == <<thread, running, attempts, pc, start_datetime, wait_seconds,
                end_time, blocked_apps, table, idx, phase, now>>
sweepVars == <<blocked_apps, table, idx, phase>>
seenVars == <<lastRequest, lastUpdate, emitted, sumBlocked, sweeps, tick, stopAt,
              stopNow, sent, runs>>
vars == <<guiVars, events, threadVars, log, notes, seenVars>>

NoTick == [failed |-> 0, raised |-> "none"]
NoProcess == <<>>
NoUpdate == [sig |-> "none", time |-> 0, blocked |-> 0, attempts |-> 0]

Init ==
  /\ blocker_thread = "None"
  /\ app_paths_list = <<>>
  /\ checked = [start_time_checkbox |-> FALSE, notify_checkbox |-> TRUE]
  /\ enabled = [w \in Widgets |-> w \notin {"stop_button", "start_time_input"}]
  /\ time_label = <<>>
  /\ apps_label = 0
  /\ attempts_label = 0
  /\ guiPc = "idle"
  /\ inputReady = TRUE
  /\ events = <<>>
  /\ thread = NoThread
  /\ running = FALSE
  /\ attempts = 0
  /\ pc = "none"
  /\ start_datetime = 0
  /\ wait_seconds = 0
  /\ end_time = 0
  /\ blocked_apps = 0
  /\ table = <<>>
  /\ idx = 1
  /\ phase = "path"
  /\ now = 0
  /\ log = [k \in LogKinds |-> 0]
  /\ notes = [k \in NoteKinds |-> 0]
  /\ lastRequest = NoProcess
  /\ lastUpdate = NoUpdate
  /\ emitted = 0
  /\ sumBlocked = 0
  /\ sweeps = 0
  /\ tick = NoTick
  /\ stopAt = "none"
  /\ stopNow = 0
  /\ sent = <<>>
  /\ received = <<>>
  /\ runs = 0

\* logging.info / logging.error of one of the session's messages.
Logged(l, kind) == [l EXCEPT ![kind] = @ + 1]

\* if self.notify: send_notification(...). A failure inside is swallowed.
Notified(n, on, kind) == IF on THEN [n EXCEPT ![kind] = @ + 1] ELSE n

\* An event put before the ones already posted.
PostedFirst(evs, ev) == <<ev>> \o evs

\* A signal emitted in the worker thread and connected to a slot of the
\* controller is queued: the event is posted behind the ones already posted.
Posted(evs, ev) == Append(evs, ev)

\* self.update_stats.emit(t, b, a): posted to the controller's thread.
Emit(t, b, a) ==
  /\ events' = Posted(events, Update(t, b, a))
  /\ sent' = Append(sent, Update(t, b, a))
  /\ lastUpdate' = Update(t, b, a)
  /\ emitted' = emitted + 1

\* QThread.isRunning(): started, and not yet in QThreadPrivate::finish.
isRunning == pc \notin {"none", "finished"}

\* ------------------------------------------------------ BlockerThread.run
\* A ValueError handler that does not return.
AfterValueErrorGoesOn == "enforce"

\* Where run() goes when strptime raises ValueError: the return of line 102.
AfterValueError == "returned"

\* Lines 77-83 and 98-102: the start time. None: straight to enforcement. A
\* malformed one: log, notify, return. Else the time of day it names, on the
\* date the clock shows now.
RunSchedule ==
  /\ pc = "run"
  /\ IF thread.start_time = NoStartTime
     THEN /\ pc' = "enforce"
          /\ UNCHANGED <<start_datetime, log, notes>>
     ELSE IF ~WellFormed(thread.start_time)
     THEN /\ log' = Logged(log, "bad_format")
          /\ notes' = Notified(notes, thread.notify, "bad_format")
          /\ pc' = AfterValueError
          /\ UNCHANGED start_datetime
     ELSE /\ start_datetime' = OnDate(thread.start_time, now)
          /\ pc' = "schedule"
          /\ UNCHANGED <<log, notes>>
  /\ UNCHANGED <<guiVars, events, thread, running, attempts, wait_seconds,
                 end_time, sweepVars, now, seenVars>>

\* Lines 84-91: the clock is read again; a start that has passed is put off
\* to the next day; the wait, the log entry and the notification.
Schedule ==
  /\ pc = "schedule"
  /\ start_datetime' = StartInstant(start_datetime, now)
  /\ wait_seconds' = start_datetime' - now
  /\ log' = Logged(log, "scheduled")
  /\ notes' = Notified(notes, thread.notify, "scheduled")
  /\ pc' = "countdown"
  /\ UNCHANGED <<guiVars, events, thread, running, attempts, end_time, sweepVars,
                 now, seenVars>>

\* Lines 93-95: the countdown loop's test and its emit.
CountdownTick ==
  /\ pc = "countdown"
  /\ IF wait_seconds > 0 /\ running
     THEN /\ Emit(wait_seconds, 0, attempts)
          /\ pc' = "countdown_sleep"
     ELSE /\ pc' = "enforce"
          /\ UNCHANGED <<events, lastUpdate, emitted, sent>>
  /\ UNCHANGED <<guiVars, thread, running, attempts, start_datetime, wait_seconds,
                 end_time, sweepVars, now, log, notes, lastRequest, sumBlocked,
                 sweeps, tick, stopAt, stopNow, runs>>

\* A countdown that does not count.
AfterSleepKeeps(w) == w

\* wait_seconds -= 1
AfterSleep(w) == w - 1

\* Lines 96-97: time.sleep(1); wait_seconds -= 1.
CountdownSleep ==
  /\ pc = "countdown_sleep"
  /\ \E over \in Oversleeps : now' = now + CountdownSleepSeconds + over
  /\ wait_seconds' = AfterSleep(wait_seconds)
  /\ pc' = "countdown"
  /\ UNCHANGED <<guiVars, events, thread, running, attempts, start_datetime,
                 end_time, sweepVars, log, notes, seenVars>>

\* Lines 104-107: end_time, and the 'Started blocking' log entry and notification.
StartEnforcement ==
  /\ pc = "enforce"
  /\ end_time' = now + thread.duration_minutes * SecondsPerMinute
  /\ log' = Logged(log, "started")
  /\ notes' = Notified(notes, thread.notify, "started")
  /\ pc' = "loop"
  /\ UNCHANGED <<guiVars, events, thread, running, attempts, start_datetime, wait_seconds,
                 sweepVars, now, seenVars>>

\* A loop test that leaves out self.running.
LoopIgnoresStop == now < end_time

\* while datetime.now() < end_time and self.running
LoopGoesOn == now < end_time /\ running

\* Lines 110-112: the blocking loop's test; a pass starts with a fresh
\* enumeration of the process table.
LoopTop ==
  /\ pc = "loop"
  /\ IF LoopGoesOn
     THEN /\ blocked_apps' = 0
          /\ table' \in Tables
          /\ idx' = 1
          /\ phase' = "path"
          /\ sweeps' = sweeps + 1
          /\ tick' = NoTick
          /\ lastRequest' = NoProcess
          /\ pc' = "sweep"
     ELSE /\ pc' = "after_loop"
          /\ UNCHANGED <<sweepVars, sweeps, tick, lastRequest>>
  /\ UNCHANGED <<guiVars, events, thread, running, attempts, start_datetime,
                 wait_seconds, end_time, now, log, notes, lastUpdate, emitted,
                 sumBlocked, stopAt, stopNow, sent, runs>>

\* A termination that is not added to blocked_apps.
CountBlockedNot(n) == n

\* A termination that is not added to self.attempts.
CountAttemptNot(n) == n

\* blocked_apps += 1 and self.attempts += 1
CountBlocked(n) == n + 1
CountAttempt(n) == n + 1

\* A soft failure that ends the for loop.
AfterFailureBreaks(i, t) == Len(t) + 1

\* The except clause of line 138 is inside the for loop: after a soft failure
\* on the process at i the loop goes on with the next one.
AfterFailure(i, t) == i + 1

\* The effect of one check on process p ending in outcome o after `took`
\* seconds: terminate() sent or not, the two counters, the soft failure caught
\* by the except clause of line 138, and where the sweep goes next.
Checked(p, o, took, next, nextIdx) ==
  /\ lastRequest' = IF o \in Requested THEN <<p>> ELSE lastRequest
  /\ blocked_apps' = IF o \in Counted THEN CountBlocked(blocked_apps) ELSE blocked_apps
  /\ attempts' = IF o \in Counted THEN CountAttempt(attempts) ELSE attempts
  /\ now' = now + took
  /\ tick' = [failed |-> IF o # "ok" /\ tick.failed = 0 THEN idx ELSE tick.failed,
              raised |-> IF o = "ok" THEN "none"
                         ELSE IF o = "wait:TimeoutExpired" THEN "timeout"
                         ELSE "failure"]
  /\ phase' = IF o = "ok" THEN next ELSE "path"
  /\ idx' = IF o = "ok" THEN nextIdx ELSE AfterFailure(idx, table)

\* Seconds the calls take: only proc.wait() takes any.
Took(o) ==
  IF o = "wait:TimeoutExpired" THEN {WaitTimeout}
  ELSE IF o \in Requested THEN ExitWaits ELSE {0}

\* Lines 115-125: the check by executable path.
CheckByPath ==
  /\ pc = "sweep" /\ idx <= Len(table) /\ phase = "path"
  /\ LET p == table[idx] IN
     \/ /\ thread.app_paths = <<>> \/ p.exe = <<>>
           \/ ~MatchByPath(p, thread.app_paths)
        /\ phase' = "name"
        /\ tick' = [tick EXCEPT !.raised = "none"]
        /\ UNCHANGED <<lastRequest, blocked_apps, attempts, now, idx>>
     \/ /\ thread.app_paths # <<>>
        /\ \E o \in PathOutcomes :
             /\ o = "exe:AccessDenied" \/ (p.exe # <<>> /\ MatchByPath(p, thread.app_paths))
             /\ \E took \in Took(o) : Checked(p, o, took, "name", idx)
  /\ UNCHANGED <<guiVars, events, thread, running, pc, start_datetime,
                 wait_seconds, end_time, table, log, notes, lastUpdate, emitted,
                 sumBlocked, sweeps, stopAt, stopNow, sent, runs>>

\* Lines 128-137: the check by process name.
CheckByName ==
  /\ pc = "sweep" /\ idx <= Len(table) /\ phase = "name"
  /\ LET p == table[idx] IN
     \/ /\ thread.process_names = <<>> \/ ~MatchByName(p, thread.process_names)
        /\ phase' = "path"
        /\ idx' = idx + 1
        /\ tick' = [tick EXCEPT !.raised = "none"]
        /\ UNCHANGED <<lastRequest, blocked_apps, attempts, now>>
     \/ /\ thread.process_names # <<>>
        /\ \E o \in NameOutcomes :
             /\ o = "name:NoSuchProcess" \/ MatchByName(p, thread.process_names)
             /\ o = "notify:NoSuchProcess" => thread.notify
             /\ \E took \in Took(o) : Checked(p, o, took, "path", idx + 1)
  /\ UNCHANGED <<guiVars, events, thread, running, pc, start_datetime,
                 wait_seconds, end_time, table, log, notes, lastUpdate, emitted,
                 sumBlocked, sweeps, stopAt, stopNow, sent, runs>>

\* Lines 141-142: the for loop is over (its enumeration is dropped); time
\* remaining, and the emit that ends the pass.
EmitStats ==
  /\ pc = "sweep" /\ idx > Len(table)
  /\ Emit(end_time - now, blocked_apps, attempts)
  /\ sumBlocked' = sumBlocked + blocked_apps
  /\ table' = <<>>
  /\ idx' = 1
  /\ phase' = "path"
  /\ lastRequest' = NoProcess
  /\ tick' = NoTick
  /\ pc' = "sleep"
  /\ UNCHANGED <<guiVars, thread, running, attempts, start_datetime, wait_seconds,
                 end_time, blocked_apps, now, log, notes, sweeps, stopAt, stopNow,
                 runs>>

\* Line 143: time.sleep(self.check_frequency).
EnforceSleep ==
  /\ pc = "sleep"
  /\ \E over \in Oversleeps : now' = now + thread.check_frequency + over
  /\ pc' = "loop"
  /\ UNCHANGED <<guiVars, events, thread, running, attempts, start_datetime, wait_seconds,
                 end_time, sweepVars, log, notes, seenVars>>

\* A stopped run that stays where it is instead of returning.
AfterRunWaits == IF running THEN "returned" ELSE "after_loop"

\* After line 148 run() returns.
AfterRun == "returned"

\* Lines 145-148: the completion report, unless stop() cleared self.running.
RunEnd ==
  /\ pc = "after_loop"
  /\ log' = IF running THEN Logged(log, "finished") ELSE log
  /\ notes' = IF running THEN Notified(notes, thread.notify, "finished") ELSE notes
  /\ pc' = AfterRun
  /\ UNCHANGED <<guiVars, events, thread, running, attempts, start_datetime, wait_seconds,
                 end_time, sweepVars, now, seenVars>>

\* run() has returned: QThread emits finished() and is no longer running.
ThreadFinished ==
  /\ pc = "returned"
  /\ events' = Posted(events, Finished)
  /\ sent' = Append(sent, Finished)
  /\ pc' = "finished"
  /\ UNCHANGED <<guiVars, thread, running, attempts, start_datetime, wait_seconds,
                 end_time, sweepVars, now, log, notes, lastRequest, lastUpdate,
                 emitted, sumBlocked, sweeps, tick, stopAt, stopNow, runs>>

Worker ==
  \/ RunSchedule \/ Schedule \/ CountdownTick \/ CountdownSleep \/ StartEnforcement
  \/ LoopTop \/ CheckByPath \/ CheckByName \/ EmitStats \/ EnforceSleep
  \/ RunEnd \/ ThreadFinished

\* ------------------------------------------------------------ AppBlockerGUI
\* What the controller's slots read and write.
View ==
  [ time_label |-> time_label, apps_label |-> apps_label,
    attempts_label |-> attempts_label,
    enabled |-> enabled, log |-> log, notes |-> notes, received |-> received ]

SetView(v) ==
  /\ time_label' = v.time_label
  /\ apps_label' = v.apps_label
  /\ attempts_label' = v.attempts_label
  /\ enabled' = v.enabled
  /\ log' = v.log
  /\ notes' = v.notes
  /\ received' = v.received

\* The widgets the 'Enable Inputs' blocks set: all but start_time_input.
Reenabled ==
  { "start_button", "add_app_button", "remove_app_button", "names_input",
    "duration_input", "start_time_checkbox", "frequency_input",
    "notify_checkbox", "admin_checkbox" }

\* Lines 374-389 and 413-428: 'Reset Labels' and 'Enable Inputs'.
ResetView(v) ==
  [ v EXCEPT !.time_label = <<>>,
             !.apps_label = 0,
             !.attempts_label = 0,
             !.enabled = [w \in Widgets |->
                            IF w \in Reenabled THEN TRUE
                            ELSE IF w = "stop_button" THEN FALSE
                            ELSE v.enabled[w]] ]

\* divmod(time_remaining, 60) if time_remaining > 0 else (0, 0)
MinsSecs(t) == IF t > 0 THEN <<t \div SecondsPerMinute, t % SecondsPerMinute>> ELSE <<0, 0>>

\* Lines 391-406: the update_stats slot.
update_stats(v, ev) ==
  [ v EXCEPT !.time_label = MinsSecs(ev.time),
             !.apps_label = ev.blocked,
             !.attempts_label = ev.attempts,
             !.received = Append(@, ev) ]

\* Lines 408-428: the blocking_finished slot; bt is self.blocker_thread.
blocking_finished(v, bt) ==
  ResetView([ v EXCEPT !.log = Logged(v.log, "completed"),
                       !.notes = Notified(v.notes, bt = "thread" /\ thread.notify,
                                          "finished"),
                       !.received = Append(@, Finished) ])

\* The slot a posted signal is connected to (lines 361-362).
Deliver(v, ev, bt) ==
  IF ev.sig = "update_stats" THEN update_stats(v, ev) ELSE blocking_finished(v, bt)

RECURSIVE Drain(_, _, _)
\* A modal dialog's event loop sends every posted event, oldest first.
Drain(v, evs, bt) ==
  IF evs = <<>> THEN v ELSE Drain(Deliver(v, Head(evs), bt), Tail(evs), bt)

\* The event loop (app.exec_) sends the oldest posted signal to its slot.
DeliverEvent ==
  /\ guiPc = "idle"
  /\ events # <<>>
  /\ SetView(Deliver(View, Head(events), blocker_thread))
  /\ events' = Tail(events)
  /\ inputReady' = (inputReady \/ Tail(events) = <<>>)
  /\ UNCHANGED <<blocker_thread, app_paths_list, checked, guiPc, threadVars, seenVars>>

\* An input event is handled once the events posted before it were sent.
InputEvent ==
  /\ guiPc = "idle"
  /\ inputReady
  /\ inputReady' = (events = <<>>)

\* Lines 290-294: the user toggles 'Schedule Start'.
toggle_start_time ==
  /\ InputEvent
  /\ runs < MaxRuns
  /\ enabled["start_time_checkbox"]
  /\ checked' = [checked EXCEPT !.start_time_checkbox = ~@]
  /\ enabled' = [enabled EXCEPT !["start_time_input"] = ~checked.start_time_checkbox]
  /\ UNCHANGED <<blocker_thread, app_paths_list, time_label, apps_label,
                 attempts_label, guiPc, received, events, threadVars, log, notes,
                 seenVars>>

RECURSIVE AddItems(_, _)
\* for path in file_paths: add it unless the list holds it already
AddItems(items, paths) ==
  IF paths = <<>> THEN items
  ELSE AddItems(IF Head(paths) \in Range(items) THEN items
                ELSE Append(items, Head(paths)), Tail(paths))

\* What the file dialog can return: nothing (cancelled) or some files.
Selections ==
  { <<>> } \cup { <<a>> : a \in DialogPaths }
           \cup { <<a, b>> : <<a, b>> \in { q \in DialogPaths \X DialogPaths : q[1] # q[2] } }

\* Lines 296-309.
add_application ==
  /\ InputEvent
  /\ runs < MaxRuns
  /\ enabled["add_app_button"]
  /\ \E file_paths \in Selections :
       app_paths_list' = AddItems(app_paths_list, file_paths)
  /\ UNCHANGED <<blocker_thread, checked, enabled, time_label, apps_label,
                 attempts_label, guiPc, received, events, threadVars, log, notes,
                 seenVars>>

\* takeItem(row): the list without its item at row.
TakeItem(items, row) ==
  SubSeq(items, 1, row - 1) \o SubSeq(items, row + 1, Len(items))

\* Lines 311-316: row 0 stands for no selection.
remove_application ==
  /\ InputEvent
  /\ runs < MaxRuns
  /\ enabled["remove_app_button"]
  /\ \E row \in 0..Len(app_paths_list) :
       app_paths_list' = IF row = 0 THEN app_paths_list
                         ELSE TakeItem(app_paths_list, row)
  /\ UNCHANGED <<blocker_thread, checked, enabled, time_label, apps_label,
                 attempts_label, guiPc, received, events, threadVars, log, notes,
                 seenVars>>

\* The clock when run() begins, for a start time st.
Instants(st) == IF st = NoStartTime THEN {12 * SecondsPerHour} ELSE RunInstants

\* Lines 318-363 with start_time = st: gather the inputs, refuse an empty
\* denylist, leave the program when elevation is asked for and missing,
\* disable the inputs, construct the thread, connect its signals, start it.
\* With `early`, BlockerThread.stop() is called on the thread between its
\* construction and start(): self.running is False when run() begins.
Begin(st, early) ==
  /\ guiPc = "idle"
  /\ inputReady
  /\ enabled["start_button"]
  /\ runs < MaxRuns
  /\ \E text \in NameTexts, duration \in Durations, notify \in BOOLEAN,
        frequency \in Frequencies, elevate \in BOOLEAN, instant \in Instants(st) :
       LET process_names == SplitNames(text) IN
       IF app_paths_list = <<>> /\ process_names = <<>>
       THEN /\ inputReady' = (events = <<>>)
            /\ UNCHANGED <<blocker_thread, app_paths_list, checked, enabled,
                           time_label, apps_label, attempts_label, guiPc,
                           received, events, threadVars, log, notes, seenVars>>
       ELSE IF elevate
       THEN /\ guiPc' = "exited"
            /\ UNCHANGED <<blocker_thread, app_paths_list, checked, enabled,
                           time_label, apps_label, attempts_label, inputReady,
                           received, events, threadVars, log, notes, seenVars>>
       ELSE /\ enabled' = [w \in Widgets |-> w = "stop_button"]
            /\ checked' = [checked EXCEPT !.notify_checkbox = notify]
            /\ blocker_thread' = "thread"
            /\ thread' = NewThread(app_paths_list, process_names, duration, st,
                                   notify, frequency)
            /\ running' = ~early
            /\ attempts' = 0
            /\ pc' = "run"
            /\ now' = instant
            /\ start_datetime' = 0
            /\ wait_seconds' = 0
            /\ end_time' = 0
            /\ blocked_apps' = 0
            /\ table' = <<>>
            /\ idx' = 1
            /\ phase' = "path"
            /\ log' = [k \in LogKinds |-> 0]
            /\ notes' = [k \in NoteKinds |-> 0]
            /\ lastRequest' = NoProcess
            /\ lastUpdate' = NoUpdate
            /\ emitted' = 0
            /\ sumBlocked' = 0
            /\ sweeps' = 0
            /\ tick' = NoTick
            /\ stopAt' = IF early THEN "created" ELSE "none"
            /\ stopNow' = IF early THEN instant ELSE 0
            /\ sent' = <<>>
            /\ received' = <<>>
            /\ runs' = runs + 1
            /\ inputReady' = (events = <<>>)
            /\ UNCHANGED <<app_paths_list, time_label, apps_label, attempts_label,
                           guiPc, events>>

StartBlocking(st) == Begin(st, FALSE)

\* The Start button: the start time is the QTimeEdit's, if 'Schedule Start'
\* is checked (lines 331-333).
start_blocking ==
  \E st \in (IF checked.start_time_checkbox THEN TimeEdits ELSE {NoStartTime}) :
     StartBlocking(st)

\* A session whose start time the caller of BlockerThread supplies.
StartSession == \E st \in StartTimes : StartBlocking(st)

\* A session on whose thread stop() was called before start().
StartStopped == \E st \in {NoStartTime} \cup TimeEdits : Begin(st, TRUE)

\* A test that leaves out isRunning().
ThreadIsSet == blocker_thread = "thread"

\* Line 366: self.blocker_thread and self.blocker_thread.isRunning()
ThreadIsRunning == blocker_thread = "thread" /\ isRunning

\* Lines 365-367 (with BlockerThread.stop, lines 150-152) when a thread is
\* running: clear self.running and block in wait(). Else lines 374-389.
StopBlocking ==
  /\ guiPc = "idle"
  /\ inputReady
  /\ IF ThreadIsRunning
     THEN /\ running' = FALSE
          /\ guiPc' = "stop_wait"
          /\ stopAt' = pc
          /\ stopNow' = now
          /\ UNCHANGED <<blocker_thread, app_paths_list, checked, enabled,
                         time_label, apps_label, attempts_label, inputReady,
                         received, events, thread, attempts, pc, start_datetime,
                         wait_seconds, end_time, sweepVars, now, log, notes,
                         lastRequest, lastUpdate, emitted, sumBlocked, sweeps,
                         tick, sent, runs>>
     ELSE /\ SetView(ResetView(View))
          /\ inputReady' = (events = <<>>)
          /\ UNCHANGED <<blocker_thread, app_paths_list, checked, guiPc, events,
                         threadVars, seenVars>>

\* The Stop button.
stop_blocking ==
  /\ enabled["stop_button"]
  /\ StopBlocking

\* stop_blocking called whatever the Stop button's state.
StopCall == StopBlocking

\* Lines 368-389: wait() has returned. The message box of line 372 runs an
\* event loop, which sends what the thread posted before it finished.
StopReturn ==
  /\ guiPc = "stop_wait"
  /\ pc = "finished"
  /\ blocker_thread' = "None"
  /\ LET stopped == [ View EXCEPT !.log = Logged(log, "stopped"),
                                  !.notes = Notified(notes, checked.notify_checkbox,
                                                     "stopped") ]
     IN  SetView(ResetView(Drain(stopped, events, "None")))
  /\ events' = <<>>
  /\ guiPc' = "idle"
  /\ inputReady' = TRUE
  /\ UNCHANGED <<app_paths_list, checked, threadVars, seenVars>>

Controller ==
  \/ DeliverEvent \/ toggle_start_time \/ add_application \/ remove_application
  \/ start_blocking \/ stop_blocking \/ StopReturn

\* The application: the controller's event loop and the worker thread.
Next == Controller \/ Worker

Spec == Init /\ [][Next]_vars

\* The application with a worker thread that is scheduled whenever it can
\* take a step: its sleeps and its bounded exit waits return.
SpecLive == Spec /\ WF_vars(Worker)

\* The same, with the thread's start time and the calls of stop_blocking
\* left to the caller.
NextTask == Next \/ StartSession \/ StartStopped \/ StopCall

SpecTask == Init /\ [][NextTask]_vars

\* ------------------------------------------------------- the schedule alone
\* A thread with a scheduled start has just been started, at any of the
\* instants of ScheduleClocks.
InitSchedule ==
  /\ blocker_thread = "thread"
  /\ app_paths_list = <<>>
  /\ checked \in { [start_time_checkbox |-> TRUE, notify_checkbox |-> n] : n \in BOOLEAN }
  /\ enabled = [w \in Widgets |-> w = "stop_button"]
  /\ time_label = <<>>
  /\ apps_label = 0
  /\ attempts_label = 0
  /\ guiPc = "idle"
  /\ inputReady = TRUE
  /\ received = <<>>
  /\ events = <<>>
  /\ thread \in { NewThread(<<>>, <<"Calc.EXE">>, 1, st, checked.notify_checkbox, 1) :
                     st \in ScheduleTimes }
  /\ running = TRUE
  /\ attempts = 0
  /\ pc = "run"
  /\ start_datetime = 0
  /\ wait_seconds = 0
  /\ end_time = 0
  /\ blocked_apps = 0
  /\ table = <<>>
  /\ idx = 1
  /\ phase = "path"
  /\ now \in ScheduleClocks
  /\ log = [k \in LogKinds |-> 0]
  /\ notes = [k \in NoteKinds |-> 0]
  /\ lastRequest = NoProcess
  /\ lastUpdate = NoUpdate
  /\ emitted = 0
  /\ sumBlocked = 0
  /\ sweeps = 0
  /\ tick = NoTick
  /\ stopAt = "none"
  /\ stopNow = 0
  /\ sent = <<>>
  /\ runs = 1

\* The clock moves on between lines 79-83, which read the date, and line 84,
\* which reads the time: the thread can lose the processor there.
Preempted ==
  /\ pc = "schedule"
  /\ \E t \in ScheduleClocks :
       /\ t > now /\ t - now <= MaxPreempt
       /\ now' = t
  /\ UNCHANGED <<guiVars, events, thread, running, attempts, pc, start_datetime,
                 wait_seconds, end_time, sweepVars, log, notes, seenVars>>

NextSchedule == RunSchedule \/ Preempted \/ Schedule

SpecSchedule == InitSchedule /\ [][NextSchedule]_vars

\* --------------------------------------------- input events in one batch
\* A session of one minute on the name 'Calc.EXE', without a scheduled start,
\* has just ended by itself: run() has returned after one sweep, its update
\* was delivered, the finished signal is posted and not yet delivered. runs
\* counts the sessions started from here on.
InitBatch ==
  /\ blocker_thread = "thread"
  /\ app_paths_list = <<>>
  /\ checked = [start_time_checkbox |-> FALSE, notify_checkbox |-> FALSE]
  /\ enabled = [w \in Widgets |-> w = "stop_button"]
  /\ time_label = MinsSecs(SecondsPerMinute)
  /\ apps_label = 0
  /\ attempts_label = 0
  /\ guiPc = "idle"
  /\ inputReady = TRUE
  /\ received = <<Update(SecondsPerMinute, 0, 0)>>
  /\ events = <<Finished>>
  /\ thread = NewThread(<<>>, <<"Calc.EXE">>, 1, NoStartTime, FALSE, 59)
  /\ running = TRUE
  /\ attempts = 0
  /\ pc = "finished"
  /\ start_datetime = 0
  /\ wait_seconds = 0
  /\ end_time \in { t + SecondsPerMinute : t \in RunInstants }
  /\ blocked_apps = 0
  /\ table = <<>>
  /\ idx = 1
  /\ phase = "path"
  /\ now = end_time
  /\ log = [k \in LogKinds |-> IF k \in {"started", "finished"} THEN 1 ELSE 0]
  /\ notes = [k \in NoteKinds |-> 0]
  /\ lastRequest = NoProcess
  /\ lastUpdate = Update(SecondsPerMinute, 0, 0)
  /\ emitted = 1
  /\ sumBlocked = 0
  /\ sweeps = 1
  /\ tick = NoTick
  /\ stopAt = "none"
  /\ stopNow = 0
  /\ sent = received \o <<Finished>>
  /\ runs = 0

\* The event loop handles the input events that are waiting one after the
\* other: the next one comes before the signals posted in the meantime.
NextInput ==
  /\ guiPc = "idle"
  /\ ~inputReady
  /\ inputReady' = TRUE
  /\ UNCHANGED <<blocker_thread, app_paths_list, checked, enabled, time_label,
                 apps_label, attempts_label, guiPc, received, events, threadVars,
                 log, notes, seenVars>>

\* run() of a thread that has no start time.
Enforcer ==
  \/ RunSchedule \/ StartEnforcement \/ LoopTop \/ CheckByPath \/ CheckByName
  \/ EmitStats \/ EnforceSleep \/ RunEnd \/ ThreadFinished

\* The user clicks the two buttons and edits nothing.
NextBatch ==
  \/ DeliverEvent \/ start_blocking \/ stop_blocking \/ StopReturn
  \/ NextInput \/ Enforcer

SpecBatch == InitBatch /\ [][NextBatch]_vars

\* ------------------------------------------------------------------ claims
CountdownPcs == {"countdown", "countdown_sleep"}

\* The session is over and the controller has handled its end.
SessionOver ==
  /\ guiPc = "idle"
  /\ events = <<>>
  /\ blocker_thread = "None" \/ pc = "finished"

\* C1: terminate() is sent to a process only if its absolute executable path
\* is in the thread's path list or its lowercased name is in its name list.
NoFalsePositive ==
  lastRequest # NoProcess =>
    LET p == lastRequest[1] IN
      \/ /\ p.exe # <<>>
         /\ \E i \in 1..Len(thread.app_paths) : thread.app_paths[i] = AbsPath(p.exe)
      \/ \E i \in 1..Len(thread.process_names) : thread.process_names[i] = Lower(p.name)

\* C1 witness: a process whose name differs from the configured one in case
\* only was sent terminate() under a denylist of names alone.
NoFalsePositiveWitness ==
  /\ lastRequest # NoProcess
  /\ thread.app_paths = <<>>
  /\ lastRequest[1].name = "Calc.EXE"

\* C2: the attempts of the emitted updates never decrease within a session,
\* and at every update equal the sum of the blocked counts of the
\* enforcement updates so far (a countdown update adds nothing).
AttemptsAreSumOfBlocked ==
  /\ [](emitted > 0 => lastUpdate.attempts = sumBlocked)
  /\ [][runs' = runs => lastUpdate'.attempts >= lastUpdate.attempts]_vars

\* C2 witness: a second enforcement update, both with terminations counted.
AttemptsAreSumOfBlockedWitness ==
  /\ emitted >= 2
  /\ lastUpdate.blocked >= 1
  /\ lastUpdate.blocked < sumBlocked
  /\ lastUpdate.attempts = sumBlocked

\* C3: a session ended by a stop request has no completion report (log entry
\* or notification, by the thread or by the controller); a session ended by
\* the duration's expiry has exactly one, once the controller has handled it.
OneTerminalReport ==
  /\ stopAt # "none" =>
       log["finished"] = 0 /\ log["completed"] = 0 /\ notes["finished"] = 0
  /\ (stopAt = "none" /\ SessionOver /\ log["started"] > 0) =>
       log["finished"] + log["completed"] = 1 /\ notes["finished"] <= 1

StopInCountdownSkipsEnforcement ==
  stopAt \in CountdownPcs =>
    log["started"] = 0 /\ notes["started"] = 0 /\ sweeps = 0

\* C6: a check whose proc.wait() times out still adds one to blocked_apps and
\* to attempts.
TimeoutIsCounted ==
  [][ (pc = "sweep" /\ pc' = "sweep" /\ idx' # idx /\ tick'.raised = "timeout") =>
        blocked_apps' = blocked_apps + 1 /\ attempts' = attempts + 1 ]_vars

\* C7: a soft failure on a process does not abort the sweep: the loop goes on
\* with the process after it, and the pass is left only with every enumerated
\* process examined and through the emit of its update.
SoftFailureKeepsSweep ==
  /\ [][ (pc = "sweep" /\ pc' = "sweep" /\ idx' # idx /\ tick'.raised # "none") =>
           idx' = idx + 1 ]_vars
  /\ [][ (pc = "sweep" /\ pc' # "sweep") =>
           /\ idx = Len(table) + 1
           /\ pc' = "sleep"
           /\ emitted' = emitted + 1
           /\ lastUpdate'.blocked = blocked_apps ]_vars

\* C7 witness: the first of two enumerated processes failed softly, the second
\* was examined and sent terminate(), and the termination was counted.
SoftFailureKeepsSweepWitness ==
  /\ pc = "sweep"
  /\ Len(table) = 2
  /\ tick.failed = 1
  /\ idx = 3
  /\ lastRequest = <<table[2]>>
  /\ blocked_apps = 1

\* C8: every emitted update carries a time remaining of at least 0.
UpdateTimeNotNegative == lastUpdate.time >= 0

\* C9: with a malformed start time nothing is emitted, no enumeration is
\* made and no terminate() is sent.
MalformedStartDoesNothing ==
  log["bad_format"] > 0 =>
    /\ emitted = 0
    /\ sweeps = 0
    /\ lastRequest = NoProcess
    /\ log["started"] = 0
    /\ pc \in {"returned", "finished"}

\* C9 witness: the run of a thread with a malformed start time has ended.
MalformedStartDoesNothingWitness ==
  /\ log["bad_format"] > 0
  /\ pc = "finished"
  /\ ~WellFormed(thread.start_time)

\* C10: after a malformed start time no completion report is produced.
MalformedStartIsNotCompleted ==
  log["bad_format"] > 0 =>
    log["completed"] = 0 /\ log["finished"] = 0 /\ notes["finished"] = 0

\* The sleeps of run(), and the seconds each asks for.
SleepPcs == {"countdown_sleep", "sleep"}
Asked(at) == IF at = "sleep" THEN thread.check_frequency ELSE CountdownSleepSeconds

\* The longest a sleep lasts beyond what was asked.
MaxOversleep == CHOOSE m \in Oversleeps : \A o \in Oversleeps : o <= m

\* C11: once run() has returned after a stop request, no more than the poll
\* interval plus the 3 seconds of one exit wait have passed since the request
\* (plus what the sleep itself overran).
StopLatencyBounded ==
  (stopAt # "none" /\ pc \in {"returned", "finished"}) =>
    now - stopNow <= thread.check_frequency + WaitTimeout + MaxOversleep

\* C12: a sleep during which stop is requested ends before the time it asked
\* for has passed.
SleepIsInterruptible ==
  [][ (pc \in SleepPcs /\ stopAt = pc /\ pc' # pc) => now' - now < Asked(pc) ]_vars

EnforcementUpdates == sweeps - (IF pc = "sweep" THEN 1 ELSE 0)
CountdownUpdates == emitted - EnforcementUpdates

\* A start time was scheduled, and lay ahead whenever the run began.
ScheduledAhead ==
  /\ log["scheduled"] > 0
  /\ \A c \in RunInstants : StartInstant(OnDate(thread.start_time, c), c) > c

\* C14: with a start time ahead, the first update is a countdown update (no
\* blocked applications) and comes before any enforcement update; no
\* enumeration is made before the countdown has reached zero, which is not
\* before the start instant; and each countdown update shows less time than
\* the one before it.
CountdownComesFirst ==
  /\ [](ScheduledAhead /\ sweeps > 0 =>
          /\ CountdownUpdates >= 1
          /\ sent[1].blocked = 0 /\ sent[1].time > 0
          /\ wait_seconds <= 0
          /\ now >= start_datetime)
  /\ [][ (pc = "countdown" /\ emitted' = emitted + 1) =>
           /\ lastUpdate'.blocked = 0
           /\ emitted > 0 => lastUpdate'.time < lastUpdate.time ]_vars

\* C14 witness: two countdown updates, 2 and 1 seconds, then the first sweep.
CountdownComesFirstWitness ==
  /\ ScheduledAhead
  /\ pc = "sweep"
  /\ sweeps = 1
  /\ emitted = 2
  /\ sent[1].time = 2 /\ sent[2].time = 1

\* C15: the start instant run() computes has the hour and minute of the start
\* time, is not before the clock it was compared with, is less than a day
\* ahead of it, and is that day's occurrence unless that one has passed.
StartIsNextOccurrence ==
  (pc = "countdown" /\ emitted = 0) =>
    LET today == OnDate(thread.start_time, now) IN
      /\ start_datetime % SecondsPerDay = TimeOfDay(thread.start_time)
      /\ start_datetime >= now
      /\ start_datetime - now < SecondsPerDay
      /\ start_datetime = IF today >= now THEN today ELSE today + SecondsPerDay
      /\ wait_seconds = start_datetime - now

\* C16: every countdown update shows the start instant minus the clock at the
\* moment it is emitted, and the sleep after it lasts a poll interval.
CountdownTracksClock ==
  /\ [](pc = "countdown_sleep" => lastUpdate.time = start_datetime - now)
  /\ [][ (pc = "countdown_sleep" /\ pc' # pc) =>
           now' - now >= thread.check_frequency ]_vars

\* C17: an enumeration pass begins only at a test of the blocking loop that
\* finds the clock before end_time and no stop requested, whether the request
\* came during the run or before start(); the flag, once cleared, stays
\* cleared for the rest of the session and the clock does not go back.
SweepOnlyWhileRunning ==
  /\ [][ sweeps' = sweeps + 1 =>
           pc = "loop" /\ now < end_time /\ running /\ stopAt = "none" ]_vars
  /\ [][ runs' = runs => (~running => ~running') /\ now' >= now ]_vars

\* C17 witness: stop() came before start(); run() went through 'Started
\* blocking' and left the loop at its first test, well before end_time, with
\* no enumeration made.
SweepOnlyWhileRunningWitness ==
  /\ stopAt = "created"
  /\ pc = "after_loop"
  /\ log["started"] = 1
  /\ now < end_time
  /\ sweeps = 0

\* C18: run(), once started, returns and the thread finishes.
RunTerminates == isRunning ~> (pc = "finished")

\* C18 witness: a run with a countdown and two sweeps, with terminations
\* counted and no stop request, has finished after its duration expired.
RunTerminatesWitness ==
  /\ pc = "finished"
  /\ stopAt = "none"
  /\ log["scheduled"] = 1
  /\ sweeps >= 2
  /\ sumBlocked >= 1
  /\ now >= end_time

\* The tests of lines 115-117 and of lines 128-130 both hold for process p.
BothMatch(p) ==
  /\ thread.app_paths # <<>> /\ p.exe # <<>> /\ MatchByPath(p, thread.app_paths)
  /\ thread.process_names # <<>> /\ MatchByName(p, thread.process_names)

\* A step of the sweep that is a check on a process matching both lists.
OnBoth ==
  /\ pc = "sweep" /\ pc' = "sweep"
  /\ idx <= Len(table) /\ BothMatch(table[idx])
  /\ idx' # idx \/ phase' # phase

OneWorkerAtATime ==
  /\ [](enabled["start_button"] # enabled["stop_button"])
  /\ [][ runs' = runs + 1 => ~isRunning ]_vars

\* No session is active: the window is idle and the Start button is enabled.
NoSession == guiPc = "idle" /\ enabled["start_button"]

\* C21: whenever no session is active the configuration inputs are in their
\* idle state: the inputs that start_blocking disabled are enabled again, the
\* Stop button is disabled, and the start-time field is enabled exactly when
\* the 'Schedule Start' checkbox is checked.
IdleInputsRestored ==
  NoSession =>
    /\ \A w \in Reenabled : enabled[w]
    /\ ~enabled["stop_button"]
    /\ enabled["start_time_input"] = checked.start_time_checkbox

====
